---- MODULE Spec2Model ----
(***************************************************************************)
(* Petition lifecycle and read-through cache of bettergovph/petition.      *)
(*                                                                         *)
(* The store (D1: petitions, signatures, petition_categories), the         *)
(* DatabaseService statements, the request handlers with their routers,    *)
(* and the KV cache in front of the read handlers.                         *)
(***************************************************************************)
EXTENDS Integers, Sequences, FiniteSets, Bags, TLC

VARIABLES
  petitions,             \* petitions table: id -> row
  signatures,            \* signatures table: bag of [petition_id, user_id] rows
  petition_categories,   \* junction table: set of <<petition_id, category_id>>
  nextId,                \* AUTOINCREMENT of petitions.id
  cache,                 \* env.CACHE (KV): key -> serialized payload
  window,                \* the get-or-compute calls on the key read last, since
                         \* that key was last invalidated or its ttl ran out
  lastResponse,          \* the response of the request handled last
  requests,              \* requests in flight (interleaved specification)
  cacheFails,            \* the KV namespace is failing its operations
  clientCache            \* the browser's Map of services/api.ts: key -> entry

vars == <<petitions, signatures, petition_categories, nextId, cache,
          window, lastResponse, requests, cacheFails, clientCache>>

storeVars == <<petitions, signatures, petition_categories, nextId>>

-----------------------------------------------------------------------------
(* Bounds and input sets *)

MaxPetitions == 2
MaxRequests == 3

NULL == "NULL"
Users == {"u1", "u2"}
NoUser == "anonymous"
PetitionTypes == {"local", "national"}
CategoryIds == {1, 2}
CURRENT_TIMESTAMP == "CURRENT_TIMESTAMP"
BarangayX == "Barangay X"

-----------------------------------------------------------------------------
(* Slug generator: DatabaseService.generateSlug.  A title is a sequence of  *)
(* one-character strings.                                                  *)

Letters == {"a", "b"}
Capitals == {"A", "B"}
DigitChars == <<"0", "1", "2", "3", "4", "5", "6", "7", "8", "9">>
Digits == {DigitChars[i] : i \in 1..10}

toLowerCase(c) == CASE c = "A" -> "a" [] c = "B" -> "b" [] OTHER -> c

\* \w of a JavaScript regular expression: [A-Za-z0-9_]
IsWordChar(c) == c \in Letters \cup Capitals \cup Digits \cup {"_"}
\* \s
IsSpace(c) == c = " "
LowerCased(s) == [i \in 1..Len(s) |-> toLowerCase(s[i])]

Spaces == {" "}
Separators == {" ", "_", "-"}
Hyphens == {"-"}

RECURSIVE DropHead(_, _)
DropHead(s, S) ==
  IF s # <<>> /\ Head(s) \in S THEN DropHead(Tail(s), S) ELSE s

RECURSIVE DropLast(_, _)
DropLast(s, S) ==
  IF s # <<>> /\ s[Len(s)] \in S
  THEN DropLast(SubSeq(s, 1, Len(s) - 1), S)
  ELSE s

\* String.prototype.trim
trim(s) == DropLast(DropHead(s, Spaces), Spaces)

\* .replace(/[^\w\s-]/g, '')
RemoveSpecial(s) ==
  SelectSeq(s, LAMBDA c : IsWordChar(c) \/ IsSpace(c) \/ c = "-")

\* .replace(/[\s_-]+/g, '-')
RECURSIVE CollapseSeparators(_)
CollapseSeparators(s) ==
  IF s = <<>> THEN <<>>
  ELSE IF Head(s) \in Separators
       THEN <<"-">> \o CollapseSeparators(DropHead(s, Separators))
       ELSE <<Head(s)>> \o CollapseSeparators(Tail(s))

\* .replace(/^-+|-+$/g, '')
StripHyphens(s) == DropLast(DropHead(s, Hyphens), Hyphens)

baseSlug(title) ==
  StripHyphens(CollapseSeparators(RemoveSpecial(trim(LowerCased(title)))))

\* `${id}` of a positive integer
RECURSIVE IdToString(_)
IdToString(n) ==
  IF n < 10 THEN <<DigitChars[n + 1]>>
  ELSE IdToString(n \div 10) \o <<DigitChars[(n % 10) + 1]>>

\* `id ? .. : ..` takes the id-less branch when the optional id is not
\* passed (undefined) and when it is 0: NoId stands for both.
NoId == 0

generateSlug(title, id) ==
  IF id # NoId
  THEN baseSlug(title) \o <<"-">> \o IdToString(id)
  ELSE baseSlug(title)

-----------------------------------------------------------------------------
(* The store.  A database value is a record of the three tables and the    *)
(* AUTOINCREMENT counter; the DatabaseService methods are operators from a *)
(* database value to [ok, error, db, result].                              *)

DB ==
  [petitions |-> petitions, signatures |-> signatures,
   petition_categories |-> petition_categories, nextId |-> nextId]

EmptyDB ==
  [petitions |-> <<>>, signatures |-> EmptyBag,
   petition_categories |-> {}, nextId |-> 1]

Ok(db, result) == [ok |-> TRUE, error |-> NULL, db |-> db, result |-> result]
Throw(db, error) == [ok |-> FALSE, error |-> error, db |-> db, result |-> NULL]

\* Error kinds of the store
UNIQUE_CONSTRAINT == "UNIQUE constraint failed"
FOREIGN_KEY_CONSTRAINT == "FOREIGN KEY constraint failed"

\* petitions.slug TEXT UNIQUE NOT NULL: no row other than `id` holds `slug`
SlugIsFree(db, slug, id) ==
  \A other \in DOMAIN db.petitions :
    other # id => db.petitions[other].slug # slug

SignatureRow(petition_id, user_id) ==
  [petition_id |-> petition_id, user_id |-> user_id]

\* COUNT(*) FROM signatures WHERE petition_id = id
SignatureCount(db, id) ==
  LET rows == {r \in BagToSet(db.signatures) : r.petition_id = id}
      RECURSIVE Sum(_)
      Sum(S) == IF S = {} THEN 0
                ELSE LET r == CHOOSE x \in S : TRUE
                     IN  CopiesIn(r, db.signatures) + Sum(S \ {r})
  IN  Sum(rows)

\* A store that leaves current_count as the INSERT or DELETE found it
CurrentCountUnmaintained(db, id) == db

\* The store keeps petitions.current_count equal to the number of
\* signature rows of the petition whenever signature rows are inserted or
\* deleted (the counter column the service reads as "cached current_count").
MaintainCurrentCount(db, id) ==
  IF id \in DOMAIN db.petitions
  THEN [db EXCEPT !.petitions[id].current_count = SignatureCount(db, id)]
  ELSE db

\* Restriction of a table (a function) to the rows other than id
RemoveRow(table, id) == [k \in DOMAIN table \ {id} |-> table[k]]

\* Remove every signature row of petition id from the bag
RemoveSignaturesOf(bag, id) ==
  LET keep == {r \in BagToSet(bag) : r.petition_id # id}
  IN  [r \in keep |-> bag[r]]

\* INSERT OR IGNORE INTO petition_categories
\* A petition_categories table without its foreign key to petitions
addPetitionCategoryUnreferenced(db, petitionId, categoryId) ==
  [db EXCEPT !.petition_categories = @ \cup {<<petitionId, categoryId>>}]

\* The foreign key to petitions rejects a link to a petition that is not
\* there (OR IGNORE covers the primary key only); RejectsCategory tells so
addPetitionCategory(db, petitionId, categoryId) ==
  IF petitionId \in DOMAIN db.petitions
  THEN [db EXCEPT !.petition_categories = @ \cup {<<petitionId, categoryId>>}]
  ELSE db

RejectsCategory(db, petitionId) == petitionId \notin DOMAIN db.petitions

RECURSIVE addPetitionCategories(_, _, _)
addPetitionCategories(db, petitionId, categoryIds) ==
  IF categoryIds = {} THEN db
  ELSE LET c == CHOOSE x \in categoryIds : TRUE
       IN  addPetitionCategories(addPetitionCategory(db, petitionId, c),
                                 petitionId, categoryIds \ {c})

\* createPetition, statement 1: INSERT INTO petitions ... RETURNING *
\* x || null
OrNull(x) == IF x \in {NULL, ""} THEN NULL ELSE x

InsertPetition(db, petitionData) ==
  LET tempSlug == generateSlug(petitionData.title, NoId)
      id == db.nextId
      row == [title |-> petitionData.title,
              type |-> petitionData.type,
              location |-> OrNull(petitionData.location),
              status |-> "active",
              slug |-> tempSlug,
              published_at |-> NULL,
              created_by |-> petitionData.created_by,
              current_count |-> 0]
  IN  IF ~SlugIsFree(db, tempSlug, id)
      THEN Throw(db, UNIQUE_CONSTRAINT)
      ELSE Ok([db EXCEPT !.petitions = (id :> row) @@ @, !.nextId = id + 1], id)

\* createPetition, statement 2: UPDATE petitions SET slug = ? WHERE id = ?
UpdateSlug(db, id, slug) ==
  IF id \notin DOMAIN db.petitions THEN Ok(db, NULL)
  ELSE IF ~SlugIsFree(db, slug, id) THEN Throw(db, UNIQUE_CONSTRAINT)
  ELSE Ok([db EXCEPT !.petitions[id].slug = slug], NULL)

\* A petition row as the API returns it
WithId(db, id) == [id |-> id, row |-> db.petitions[id]]

\* createPetition that returns after the INSERT, keeping the temporary slug
createPetitionTempSlug(db, petitionData) ==
  LET ins == InsertPetition(db, petitionData)
  IN  IF ~ins.ok THEN ins
      ELSE Ok(addPetitionCategories(ins.db, ins.result,
                                    petitionData.category_ids),
              WithId(ins.db, ins.result))

createPetition(db, petitionData) ==
  LET ins == InsertPetition(db, petitionData)
  IN  IF ~ins.ok THEN ins
      ELSE
        LET id == ins.result
            finalSlug == generateSlug(petitionData.title, id)
            upd == UpdateSlug(ins.db, id, finalSlug)
        IN  IF ~upd.ok THEN upd
            ELSE
              LET db2 == addPetitionCategories(upd.db, id,
                                               petitionData.category_ids)
              IN  Ok(db2, [id |-> id,
                           row |-> [ins.db.petitions[id] EXCEPT
                                      !.slug = finalSlug]])

\* SELECT c.* FROM categories c JOIN petition_categories pc ...
CategoriesOf(db, id) == {pc[2] : pc \in {x \in db.petition_categories : x[1] = id}}

\* PetitionWithDetails
Details(db, id) ==
  [id |-> id, row |-> db.petitions[id], categories |-> CategoriesOf(db, id)]

\* A nullable result is a set: {} for null, {x} for the value x
Null == {}
Some(x) == {x}
TheValue(o) == CHOOSE x \in o : TRUE

getPetitionById(db, id) ==
  IF id \in DOMAIN db.petitions THEN Some(Details(db, id)) ELSE Null

getPetitionBySlug(db, slug) ==
  LET hits == {id \in DOMAIN db.petitions : db.petitions[id].slug = slug}
  IN  IF hits = {} THEN Null ELSE Some(Details(db, CHOOSE id \in hits : TRUE))

\* ORDER BY created_at DESC: rows are created in id order
RECURSIVE NewestFirst(_)
NewestFirst(ids) ==
  IF ids = {} THEN <<>>
  ELSE LET m == CHOOSE x \in ids : \A y \in ids : y <= x
       IN  <<m>> \o NewestFirst(ids \ {m})

\* LIMIT ? OFFSET ?
LimitOffset(seq, limit, offset) ==
  SubSeq(seq, offset + 1,
         IF offset + limit < Len(seq) THEN offset + limit ELSE Len(seq))

\* getAllPetitions without its WHERE p.published_at IS NOT NULL
getAllPetitionsAnyState(db, limit, offset, type, categoryIds) ==
  LET match ==
        {id \in DOMAIN db.petitions :
           /\ (type # NULL => db.petitions[id].type = type)
           /\ (categoryIds # {} =>
                 CategoriesOf(db, id) \cap categoryIds # {})}
      page == LimitOffset(NewestFirst(match), limit, offset)
  IN  [i \in 1..Len(page) |-> Details(db, page[i])]

\* type is NULL when not passed; categoryIds is {} when not passed or empty
getAllPetitions(db, limit, offset, type, categoryIds) ==
  LET match ==
        {id \in DOMAIN db.petitions :
           /\ db.petitions[id].published_at # NULL
           /\ (type # NULL => db.petitions[id].type = type)
           /\ (categoryIds # {} =>
                 CategoriesOf(db, id) \cap categoryIds # {})}
      page == LimitOffset(NewestFirst(match), limit, offset)
  IN  [i \in 1..Len(page) |-> Details(db, page[i])]

getUserPetitions(db, userId) ==
  LET match == {id \in DOMAIN db.petitions :
                  db.petitions[id].created_by = userId}
      all == NewestFirst(match)
  IN  [i \in 1..Len(all) |-> WithId(db, all[i])]

\* publishPetition that rejects a petition whose published_at is already set
publishPetitionOnce(db, id) ==
  IF id \in DOMAIN db.petitions /\ db.petitions[id].published_at # NULL
  THEN Throw(db, "Petition already published")
  ELSE LET db2 == IF id \in DOMAIN db.petitions
                  THEN [db EXCEPT !.petitions[id].published_at =
                                    CURRENT_TIMESTAMP]
                  ELSE db
       IN  IF id \in DOMAIN db2.petitions
           THEN Ok(db2, WithId(db2, id))
           ELSE Throw(db2, "Petition not found after publishing")

publishPetition(db, id) ==
  LET db2 == IF id \in DOMAIN db.petitions
             THEN [db EXCEPT !.petitions[id].published_at = CURRENT_TIMESTAMP]
             ELSE db
  IN  IF id \in DOMAIN db2.petitions
      THEN Ok(db2, WithId(db2, id))
      ELSE Throw(db2, "Petition not found after publishing")

\* publishPetition, statement 1: UPDATE petitions SET published_at = ...
publishPetitionUpdate(db, id) ==
  IF id \in DOMAIN db.petitions
  THEN [db EXCEPT !.petitions[id].published_at = CURRENT_TIMESTAMP]
  ELSE db

\* publishPetition, statement 2: SELECT * FROM petitions WHERE id = ?
publishPetitionSelect(db, id) ==
  IF id \in DOMAIN db.petitions
  THEN Ok(db, WithId(db, id))
  ELSE Throw(db, "Petition not found after publishing")

\* unpublishPetition that also sets status back to active
unpublishPetitionResetsStatus(db, id) ==
  IF id \in DOMAIN db.petitions
  THEN [db EXCEPT !.petitions[id].published_at = NULL,
                  !.petitions[id].status = "active"]
  ELSE db

unpublishPetition(db, id) ==
  IF id \in DOMAIN db.petitions
  THEN [db EXCEPT !.petitions[id].published_at = NULL]
  ELSE db

\* updatePetition whose SET list takes every key of the body
updatePetitionAnyKey(db, id, petitionData) ==
  LET setsStatus == petitionData.status # NULL
      setsCreator == petitionData.created_by # NULL
      setsPublished == petitionData.published_at # NULL
  IN  IF ~(setsStatus \/ setsCreator \/ setsPublished)
      THEN Throw(db, "No fields to update")
      ELSE IF id \notin DOMAIN db.petitions
      THEN Throw(db, "Failed to update petition")
      ELSE
        LET old == db.petitions[id]
            row == [old EXCEPT
                      !.status = IF setsStatus THEN petitionData.status ELSE @,
                      !.created_by = IF setsCreator
                                     THEN petitionData.created_by ELSE @,
                      !.published_at = IF setsPublished
                                       THEN petitionData.published_at ELSE @]
        IN  Ok([db EXCEPT !.petitions[id] = row], [id |-> id, row |-> row])

\* updatePetition without `if (updateFields.length === 0) throw`: the UPDATE
\* sets updated_at alone
updatePetitionUnchecked(db, id, petitionData) ==
  IF id \notin DOMAIN db.petitions
  THEN Throw(db, "Failed to update petition")
  ELSE Ok(db, WithId(db, id))

\* A request body for update carries each field or not (undefined): title
\* and category_ids are Null or Some(value); type, status and location NULL
\* or a value.
updatePetition(db, id, petitionData) ==
  LET setsTitle == petitionData.title # Null
      setsType == petitionData.type # NULL
      setsStatus == petitionData.status # NULL
      setsLocation == petitionData.location # NULL
      newTitle == TheValue(petitionData.title)
      newSlug == generateSlug(newTitle, id)
  IN  IF ~(setsTitle \/ setsType \/ setsStatus \/ setsLocation)
      THEN Throw(db, "No fields to update")
      ELSE IF id \notin DOMAIN db.petitions
      THEN Throw(db, "Failed to update petition")
      ELSE IF setsTitle /\ ~SlugIsFree(db, newSlug, id)
      THEN Throw(db, UNIQUE_CONSTRAINT)
      ELSE
        LET old == db.petitions[id]
            row == [old EXCEPT
                      !.title = IF setsTitle THEN newTitle ELSE @,
                      !.type = IF setsType THEN petitionData.type ELSE @,
                      !.location = IF setsLocation
                                   THEN petitionData.location ELSE @,
                      !.status = IF setsStatus THEN petitionData.status ELSE @,
                      !.slug = IF setsTitle THEN newSlug ELSE @]
            db2 == [db EXCEPT !.petitions[id] = row]
            db3 == IF petitionData.category_ids # Null
                   THEN addPetitionCategories(
                          [db2 EXCEPT !.petition_categories =
                             {pc \in @ : pc[1] # id}],
                          id, TheValue(petitionData.category_ids))
                   ELSE db2
        IN  Ok(db3, [id |-> id, row |-> row])

\* createSignature against a table without UNIQUE(petition_id, user_id)
createSignatureNoUnique(db, signatureData) ==
  LET row == SignatureRow(signatureData.petition_id, signatureData.user_id)
  IN  IF signatureData.petition_id \notin DOMAIN db.petitions
      THEN Throw(db, FOREIGN_KEY_CONSTRAINT)
      ELSE Ok(MaintainCurrentCount(
                [db EXCEPT !.signatures = @ (+) SetToBag({row})],
                signatureData.petition_id),
              row)

\* INSERT INTO signatures ... RETURNING *, under
\* FOREIGN KEY (petition_id) REFERENCES petitions(id) and
\* UNIQUE(petition_id, user_id)
createSignature(db, signatureData) ==
  LET row == SignatureRow(signatureData.petition_id, signatureData.user_id)
  IN  IF signatureData.petition_id \notin DOMAIN db.petitions
      THEN Throw(db, FOREIGN_KEY_CONSTRAINT)
      ELSE IF BagIn(row, db.signatures)
      THEN Throw(db, UNIQUE_CONSTRAINT)
      ELSE Ok(MaintainCurrentCount(
                [db EXCEPT !.signatures = @ (+) SetToBag({row})],
                signatureData.petition_id),
              row)

\* A first statement that deletes the petition row itself
DeletePetitionFirst(db, id) ==
  [db EXCEPT !.petitions = RemoveRow(@, id),
             !.signatures = RemoveSignaturesOf(@, id),
             !.petition_categories = {pc \in @ : pc[1] # id}]

\* deletePetition, statement 1
DeletePetitionCategories(db, id) ==
  [db EXCEPT !.petition_categories = {pc \in @ : pc[1] # id}]

\* deletePetition, statement 2
DeleteSignatures(db, id) ==
  MaintainCurrentCount(
    [db EXCEPT !.signatures = RemoveSignaturesOf(@, id)], id)

\* deletePetition, statement 3; the foreign keys of signatures and
\* petition_categories are ON DELETE CASCADE
DeletePetitionRow(db, id) ==
  [db EXCEPT !.petitions = RemoveRow(@, id),
             !.signatures = RemoveSignaturesOf(@, id),
             !.petition_categories = {pc \in @ : pc[1] # id}]

\* deletePetition whose statements match every id from the given one upward
deletePetitionFrom(db, id) ==
  LET gone == {j \in DOMAIN db.petitions : j >= id}
  IN  [db EXCEPT
         !.petitions = [k \in DOMAIN @ \ gone |-> @[k]],
         !.signatures = [r \in {x \in BagToSet(@) : x.petition_id \notin gone}
                           |-> @[r]],
         !.petition_categories = {pc \in @ : pc[1] \notin gone}]

deletePetition(db, id) ==
  DeletePetitionRow(DeleteSignatures(DeletePetitionCategories(db, id), id), id)

-----------------------------------------------------------------------------
(* Cache layer (env.CACHE, a KV namespace) and invalidation.               *)

PETITIONS_PREFIX == "petitions:"
PETITION_PREFIX == "petition:"

\* A list query: [type, limit, offset, userId, categories], NULL for an absent
\* parameter and {} for an absent categories parameter
DefaultLimit == 50
DefaultOffset == 0
NoQuery == [type |-> NULL, limit |-> DefaultLimit, offset |-> DefaultOffset,
            userId |-> NULL, categories |-> {}]

\* The key of a request: the prefix, then the request's path and query
generateCacheKey(prefix, path, query) ==
  [prefix |-> prefix, path |-> path, query |-> query]

ListPath == <<"/api/petitions">>
DetailPath(id) == <<"/api/petitions/">> \o IdToString(id)

ListKey(query) == generateCacheKey(PETITIONS_PREFIX, ListPath, query)
DetailKey(id) == generateCacheKey(PETITION_PREFIX, DetailPath(id), NoQuery)

\* getOrSetCache that never stores what it computed
getOrSetCacheNoStore(c, key, computed) ==
  IF key \in DOMAIN c
  THEN [ok |-> TRUE, error |-> NULL, value |-> c[key], cache |-> c,
        hit |-> TRUE]
  ELSE [ok |-> computed.ok, error |-> computed.error,
        value |-> computed.result, cache |-> c, hit |-> FALSE]

\* A live entry is returned without computing; otherwise the computed value
\* is stored and returned; a failed computation propagates and stores nothing.
\* `computed` is the outcome [ok, error, result] the compute function has.
getOrSetCache(c, key, computed) ==
  IF key \in DOMAIN c
  THEN [ok |-> TRUE, error |-> NULL, value |-> c[key], cache |-> c,
        hit |-> TRUE]
  ELSE IF computed.ok
  THEN [ok |-> TRUE, error |-> NULL, value |-> computed.result,
        cache |-> (key :> computed.result) @@ c, hit |-> FALSE]
  ELSE [ok |-> FALSE, error |-> computed.error, value |-> NULL, cache |-> c,
        hit |-> FALSE]

\* Every key that starts with the pattern is deleted.  "petition:" is not a
\* prefix of a key that starts "petitions:", nor the other way round.
KeysMatching(c, pattern) == {k \in DOMAIN c : k.prefix = pattern}

invalidateCachePattern(c, pattern) ==
  [k \in DOMAIN c \ KeysMatching(c, pattern) |-> c[k]]

\* The calls on one key with no invalidation and no expiry in between:
\* how many invoked the compute function, how many of those failed, and the
\* payloads returned
NoKey == generateCacheKey(NULL, <<>>, NoQuery)
NoWindow == [key |-> NoKey, computes |-> 0, failed |-> 0, payloads |-> {}]

Bump(n) == IF n < 2 THEN n + 1 ELSE 2

RecordLookup(w, key, got) ==
  LET old == IF w.key = key THEN w ELSE [NoWindow EXCEPT !.key = key]
  IN  [key |-> key,
       computes |-> IF got.hit THEN old.computes ELSE Bump(old.computes),
       failed |-> IF got.ok THEN old.failed ELSE Bump(old.failed),
       payloads |-> IF got.ok THEN old.payloads \cup {got.value}
                    ELSE old.payloads]

ForgetLookups(w, pattern) == IF w.key.prefix = pattern THEN NoWindow ELSE w

PETITION_NOT_FOUND == "Petition not found"

\* Status of an error response of the signatures handler: a uniqueness
\* violation on signing is "already signed" (409), any other failure 500
createErrorResponse(error) ==
  IF error = UNIQUE_CONSTRAINT THEN 409 ELSE 500

\* Status of an error response of the petition handlers: a missing resource
\* is 404, a store failure 500
createCachedErrorResponse(error) ==
  IF error = PETITION_NOT_FOUND THEN 404 ELSE 500

-----------------------------------------------------------------------------
(* Routers and authorization.                                              *)

\* functions/index.ts routes by hand; the worker entry point uses itty-router
IndexRouter == "functions/index.ts"
IttyRouter == "itty-router"
Routers == {IndexRouter, IttyRouter}

requireAuth(user) == IF user = NoUser THEN 401 ELSE 200

requirePetitionOwnership(db, user, petitionId) ==
  IF requireAuth(user) # 200 THEN 401
  ELSE IF getPetitionById(db, petitionId) = Null THEN 404
  ELSE IF db.petitions[petitionId].created_by # user THEN 403
  ELSE 200

\* Which routes run requirePetitionOwnership before the handler
OwnershipRoute(router, op) ==
  IF router = IttyRouter
  THEN op \in {"update", "delete", "publish", "unpublish"}
  ELSE op \in {"publish", "unpublish"}

Authorize(router, op, db, user, petitionId) ==
  IF OwnershipRoute(router, op)
  THEN requirePetitionOwnership(db, user, petitionId)
  ELSE 200

-----------------------------------------------------------------------------
(* Request handlers, each run to completion (one request at a time).       *)

Response(op, user, status, id, query, body, payload, before, existed, hit) ==
  [op |-> op, user |-> user, status |-> status, id |-> id,
   query |-> query, body |-> body, payload |-> payload, before |-> before,
   existed |-> existed, hit |-> hit]

NoResponse ==
  Response("none", NoUser, 0, 0, NoQuery, NULL, NULL, Null, FALSE, FALSE)

Commit(db) ==
  /\ petitions' = db.petitions
  /\ signatures' = db.signatures
  /\ petition_categories' = db.petition_categories
  /\ nextId' = db.nextId

\* Eviction of the cache keys under each pattern of a list of patterns
RECURSIVE Evicted(_, _)
Evicted(c, patterns) ==
  IF patterns = <<>> THEN c
  ELSE Evicted(invalidateCachePattern(c, Head(patterns)), Tail(patterns))

RECURSIVE Forgotten(_, _)
Forgotten(l, patterns) ==
  IF patterns = <<>> THEN l
  ELSE Forgotten(ForgetLookups(l, Head(patterns)), Tail(patterns))

\* An eviction whose failure is thrown to the handler that awaits it
InvalidationRethrows(fails) == fails

\* Whether a failing eviction throws into the handler that awaits it: it is
\* logged and swallowed
InvalidationThrows(fails) == FALSE

Invalidate(patterns) ==
  /\ cache' = IF cacheFails THEN cache ELSE Evicted(cache, patterns)
  /\ window' = IF cacheFails THEN window ELSE Forgotten(window, patterns)

KV_ERROR == "KV operation failed"

\* The status of a handler that awaited its evictions inside its try block:
\* an eviction that throws lands in the catch
AfterInvalidate(status) ==
  IF InvalidationThrows(cacheFails) THEN createCachedErrorResponse(KV_ERROR)
  ELSE status

\* The KV namespace starts or stops failing
CacheOutage ==
  /\ cacheFails' = ~cacheFails
  /\ UNCHANGED <<storeVars, cache, window, lastResponse, requests,
                 clientCache>>

\* What each handler evicts after its write
CreateEvicts == <<PETITIONS_PREFIX>>
UpdateEvicts == <<PETITIONS_PREFIX, PETITION_PREFIX>>
DeleteEvicts == <<PETITIONS_PREFIX, PETITION_PREFIX>>
PublishEvicts == <<PETITIONS_PREFIX, PETITION_PREFIX>>
UnpublishEvicts == <<PETITIONS_PREFIX, PETITION_PREFIX>>
SignEvicts == <<PETITIONS_PREFIX>>

\* The handler without `petitionData.created_by = user.id`
WithClaimedCreator(body, user) == body

\* petitionData.created_by = user.id
WithAuthenticatedCreator(body, user) == [body EXCEPT !.created_by = user]

\* { ...signatureData, user_id: user.id }
WithAuthenticatedSigner(body, user) == [body EXCEPT !.user_id = user]

\* POST /api/petitions
CreatePetitionRequest(router, user, body) ==
  /\ nextId <= MaxPetitions
  /\ IF requireAuth(user) # 200
     THEN /\ UNCHANGED <<storeVars, cache, window>>
          /\ lastResponse' = Response("create", user, 401, 0, NoQuery,
                                      body, NULL, Null, FALSE, FALSE)
     ELSE LET res == createPetition(DB, WithAuthenticatedCreator(body, user))
          IN  /\ Commit(res.db)
              /\ IF res.ok
                 THEN /\ Invalidate(CreateEvicts)
                      /\ lastResponse' =
                           Response("create", user, AfterInvalidate(200), res.result.id,
                                    NoQuery, body, res.result, Null, FALSE,
                                    FALSE)
                 ELSE /\ UNCHANGED <<cache, window>>
                      /\ lastResponse' =
                           Response("create", user,
                                    createCachedErrorResponse(res.error), 0,
                                    NoQuery, body, NULL, Null, FALSE, FALSE)
  /\ UNCHANGED <<requests, cacheFails, clientCache>>

\* PUT /api/petitions/:id
UpdatePetitionRequest(router, user, id, body) ==
  LET auth == Authorize(router, "update", DB, user, id)
      before == getPetitionById(DB, id)
  IN  /\ IF auth # 200
         THEN /\ UNCHANGED <<storeVars, cache, window>>
              /\ lastResponse' = Response("update", user, auth, id,
                                          NoQuery, body, NULL, before, FALSE,
                                          FALSE)
         ELSE LET res == updatePetition(DB, id, body)
              IN  /\ Commit(res.db)
                  /\ IF res.ok
                     THEN /\ Invalidate(UpdateEvicts)
                          /\ lastResponse' =
                               Response("update", user, AfterInvalidate(200), id,
                                        NoQuery, body, res.result, before,
                                        FALSE, FALSE)
                     ELSE /\ UNCHANGED <<cache, window>>
                          /\ lastResponse' =
                               Response("update", user,
                                        createCachedErrorResponse(res.error),
                                        id, NoQuery, body, NULL, before, FALSE,
                                        FALSE)
      /\ UNCHANGED <<requests, cacheFails, clientCache>>

\* DELETE /api/petitions/:id
DeletePetitionRequest(router, user, id) ==
  LET auth == Authorize(router, "delete", DB, user, id)
      before == getPetitionById(DB, id)
  IN  /\ IF auth # 200
         THEN /\ UNCHANGED <<storeVars, cache, window>>
              /\ lastResponse' = Response("delete", user, auth, id,
                                          NoQuery, NULL, NULL, before, FALSE,
                                          FALSE)
         ELSE /\ Commit(deletePetition(DB, id))
              /\ Invalidate(DeleteEvicts)
              /\ lastResponse' = Response("delete", user, AfterInvalidate(200), id,
                                          NoQuery, NULL, NULL, before, FALSE,
                                          FALSE)
      /\ UNCHANGED <<requests, cacheFails, clientCache>>

\* POST /api/petition/:id/publish
PublishPetitionRequest(router, user, id) ==
  LET auth == Authorize(router, "publish", DB, user, id)
      before == getPetitionById(DB, id)
  IN  /\ IF auth # 200
         THEN /\ UNCHANGED <<storeVars, cache, window>>
              /\ lastResponse' = Response("publish", user, auth, id,
                                          NoQuery, NULL, NULL, before, FALSE,
                                          FALSE)
         ELSE LET res == publishPetition(DB, id)
              IN  /\ Commit(res.db)
                  /\ IF res.ok
                     THEN /\ Invalidate(PublishEvicts)
                          /\ lastResponse' =
                               Response("publish", user, AfterInvalidate(200), id,
                                        NoQuery, NULL, res.result, before,
                                        FALSE, FALSE)
                     ELSE /\ UNCHANGED <<cache, window>>
                          /\ lastResponse' =
                               Response("publish", user,
                                        createCachedErrorResponse(res.error),
                                        id, NoQuery, NULL, NULL, before, FALSE,
                                        FALSE)
      /\ UNCHANGED <<requests, cacheFails, clientCache>>

\* POST /api/petition/:id/unpublish
UnpublishPetitionRequest(router, user, id) ==
  LET auth == Authorize(router, "unpublish", DB, user, id)
      before == getPetitionById(DB, id)
  IN  /\ IF auth # 200
         THEN /\ UNCHANGED <<storeVars, cache, window>>
              /\ lastResponse' = Response("unpublish", user, auth, id,
                                          NoQuery, NULL, NULL, before, FALSE,
                                          FALSE)
         ELSE LET db2 == unpublishPetition(DB, id)
                  updatedPetition == getPetitionById(db2, id)
              IN  /\ Commit(db2)
                  /\ IF updatedPetition = Null
                     THEN /\ UNCHANGED <<cache, window>>
                          /\ lastResponse' =
                               Response("unpublish", user, 404, id,
                                        NoQuery, NULL, NULL, before, FALSE,
                                        FALSE)
                     ELSE /\ Invalidate(UnpublishEvicts)
                          /\ lastResponse' =
                               Response("unpublish", user, AfterInvalidate(200), id,
                                        NoQuery, NULL,
                                        TheValue(updatedPetition), before,
                                        FALSE, FALSE)
      /\ UNCHANGED <<requests, cacheFails, clientCache>>

\* POST /api/signatures
CreateSignatureRequest(router, user, body) ==
  LET before == getPetitionById(DB, body.petition_id)
      existed == BagIn(SignatureRow(body.petition_id, user), signatures)
  IN  /\ IF requireAuth(user) # 200
         THEN /\ UNCHANGED <<storeVars, cache, window>>
              /\ lastResponse' = Response("sign", user, 401,
                                          body.petition_id, NoQuery, body, NULL,
                                          before, existed, FALSE)
         ELSE LET res == createSignature(DB, WithAuthenticatedSigner(body, user))
              IN  /\ Commit(res.db)
                  /\ IF res.ok
                     THEN /\ Invalidate(SignEvicts)
                          /\ lastResponse' =
                               Response("sign", user, AfterInvalidate(200),
                                        body.petition_id, NoQuery, body,
                                        res.result, before, existed, FALSE)
                     ELSE /\ UNCHANGED <<cache, window>>
                          /\ lastResponse' =
                               Response("sign", user,
                                        createErrorResponse(res.error),
                                        body.petition_id, NoQuery, body, NULL,
                                        before, existed, FALSE)
      /\ UNCHANGED <<requests, cacheFails, clientCache>>

\* POST /api/signatures, one await at a time. Request ids are labels of the
\* requests in flight; they are handed out in order.
RequestIds == 1..MaxRequests

\* A request in flight: its position (pc), the caller, what it carries (the
\* signature body, or op, id and petitionData of a petition request), what
\* it has obtained so far (result, error, status) and the category ids its
\* loop has still to insert (todo); for a GET of the browser, the validator
\* it sent (ifNoneMatch) and the body of the response (data)
NoPetitionData ==
  [title |-> <<>>, type |-> NULL, location |-> NULL, created_by |-> NoUser,
   category_ids |-> {}]

IdleRequest ==
  [pc |-> "idle", user |-> NoUser,
   signatureData |-> [petition_id |-> 0, user_id |-> NoUser],
   error |-> NULL, status |-> 0,
   op |-> "none", id |-> 0, petitionData |-> NoPetitionData, result |-> Null,
   todo |-> {}, ifNoneMatch |-> Null, data |-> Null]

\* A request may start when every request before it has started
MayStart(r) ==
  /\ requests[r].pc = "idle"
  /\ IF r = 1 THEN TRUE ELSE requests[r - 1].pc # "idle"

\* The router authenticates, the handler reads the body and sets user_id
SignBegin(r, router, user, body) ==
  /\ MayStart(r)
  /\ requests' =
       [requests EXCEPT ![r] =
          IF requireAuth(user) # 200
          THEN [IdleRequest EXCEPT !.pc = "done", !.user = user,
                                   !.signatureData = body, !.status = 401]
          ELSE [IdleRequest EXCEPT
                  !.pc = "insert", !.user = user,
                  !.signatureData = WithAuthenticatedSigner(body, user)]]
  /\ UNCHANGED <<storeVars, cache, window, lastResponse, cacheFails, clientCache>>

\* await db.createSignature(signatureDataWithUser)
SignInsert(r) ==
  /\ requests[r].pc = "insert"
  /\ LET res == createSignature(DB, requests[r].signatureData)
     IN  /\ Commit(res.db)
         /\ requests' =
              [requests EXCEPT ![r] =
                 IF res.ok THEN [@ EXCEPT !.pc = "evict", !.status = 200]
                 ELSE [@ EXCEPT !.pc = "done", !.error = res.error,
                                !.status = createErrorResponse(res.error)]]
  /\ UNCHANGED <<cache, window, lastResponse, cacheFails, clientCache>>

\* await invalidateCachePattern('petitions:', CACHE), then the response
SignEvict(r) ==
  /\ requests[r].pc = "evict"
  /\ Invalidate(SignEvicts)
  /\ requests' = [requests EXCEPT ![r].pc = "done",
                                  ![r].status = AfterInvalidate(200)]
  /\ UNCHANGED <<storeVars, lastResponse, cacheFails, clientCache>>

\* POST /api/petitions, statement by statement. The router authenticates and
\* the handler sets created_by.
CreateBegin(r, user, body) ==
  /\ MayStart(r)
  /\ nextId <= MaxPetitions
  /\ requests' =
       [requests EXCEPT ![r] =
          IF requireAuth(user) # 200
          THEN [IdleRequest EXCEPT !.pc = "done", !.user = user,
                                   !.op = "create", !.petitionData = body,
                                   !.status = 401]
          ELSE [IdleRequest EXCEPT
                  !.pc = "insert_petition", !.user = user, !.op = "create",
                  !.petitionData = WithAuthenticatedCreator(body, user)]]
  /\ UNCHANGED <<storeVars, cache, window, lastResponse, cacheFails, clientCache>>

\* createPetition: INSERT INTO petitions ... with the temporary slug
CreateInsert(r) ==
  /\ requests[r].pc = "insert_petition"
  /\ nextId <= MaxPetitions
  /\ LET res == InsertPetition(DB, requests[r].petitionData)
     IN  /\ Commit(res.db)
         /\ requests' =
              [requests EXCEPT ![r] =
                 IF res.ok
                 THEN [@ EXCEPT !.pc = "update_slug", !.id = res.result]
                 ELSE [@ EXCEPT !.pc = "done", !.error = res.error,
                                !.status =
                                  createCachedErrorResponse(res.error)]]
  /\ UNCHANGED <<cache, window, lastResponse, cacheFails, clientCache>>

\* createPetition: UPDATE petitions SET slug = ? WHERE id = ?
CreateUpdateSlug(r) ==
  /\ requests[r].pc = "update_slug"
  /\ LET req == requests[r]
         res == UpdateSlug(DB, req.id,
                           generateSlug(req.petitionData.title, req.id))
     IN  /\ Commit(res.db)
         /\ requests' =
              [requests EXCEPT ![r] =
                 IF res.ok
                 THEN [@ EXCEPT !.pc = "add_categories"]
                 ELSE [@ EXCEPT !.pc = "done", !.error = res.error,
                                !.status =
                                  createCachedErrorResponse(res.error)]]
  /\ UNCHANGED <<cache, window, lastResponse, cacheFails, clientCache>>

\* createPetition: the category inserts; then the handler's eviction and
\* its response
CreateFinish(r) ==
  /\ requests[r].pc = "add_categories"
  /\ LET req == requests[r]
     IN  /\ Commit(addPetitionCategories(DB, req.id,
                                        req.petitionData.category_ids))
         /\ Invalidate(CreateEvicts)
         /\ requests' = [requests EXCEPT ![r].pc = "done",
                                         ![r].status = AfterInvalidate(200)]
  /\ UNCHANGED <<lastResponse, cacheFails, clientCache>>

\* PUT /api/petitions/:id, statement by statement
UpdateBegin(r, router, user, id, body) ==
  /\ MayStart(r)
  /\ LET auth == Authorize(router, "update", DB, user, id)
     IN  requests' =
           [requests EXCEPT ![r] =
              [IdleRequest EXCEPT
                 !.pc = IF auth # 200 THEN "done" ELSE "update_row",
                 !.user = user, !.op = "update", !.id = id,
                 !.petitionData = body,
                 !.status = IF auth # 200 THEN auth ELSE 0]]
  /\ UNCHANGED <<storeVars, cache, window, lastResponse, cacheFails, clientCache>>

\* updatePetition: UPDATE petitions SET ... WHERE id = ? RETURNING *
UpdateRow(r) ==
  /\ requests[r].pc = "update_row"
  /\ LET req == requests[r]
         res == updatePetition(DB, req.id,
                               [req.petitionData EXCEPT !.category_ids = Null])
     IN  /\ Commit(res.db)
         /\ requests' =
              [requests EXCEPT ![r] =
                 IF ~res.ok
                 THEN [@ EXCEPT !.pc = "done", !.error = res.error,
                                !.status =
                                  createCachedErrorResponse(res.error)]
                 ELSE [@ EXCEPT
                         !.pc = IF req.petitionData.category_ids # Null
                                THEN "remove_categories" ELSE "update_evict",
                         !.result = Some(res.result)]]
  /\ UNCHANGED <<cache, window, lastResponse, cacheFails, clientCache>>

\* updatePetition: DELETE FROM petition_categories WHERE petition_id = ?
UpdateRemoveCategories(r) ==
  /\ requests[r].pc = "remove_categories"
  /\ LET todo == TheValue(requests[r].petitionData.category_ids)
     IN  /\ Commit(DeletePetitionCategories(DB, requests[r].id))
         /\ requests' =
              [requests EXCEPT
                 ![r].pc = IF todo = {} THEN "update_evict"
                                        ELSE "add_category",
                 ![r].todo = todo]
  /\ UNCHANGED <<cache, window, lastResponse, cacheFails, clientCache>>

\* updatePetition: one round of the loop, await addPetitionCategory(id, c)
UpdateAddCategory(r) ==
  /\ requests[r].pc = "add_category"
  /\ \E c \in requests[r].todo :
       /\ Commit(addPetitionCategory(DB, requests[r].id, c))
       /\ requests' =
            [requests EXCEPT ![r] =
               IF RejectsCategory(DB, requests[r].id)
               THEN [@ EXCEPT !.pc = "done",
                              !.error = FOREIGN_KEY_CONSTRAINT,
                              !.status = createCachedErrorResponse(
                                           FOREIGN_KEY_CONSTRAINT)]
               ELSE [@ EXCEPT !.pc = IF requests[r].todo = {c}
                                     THEN "update_evict" ELSE "add_category",
                              !.todo = @ \ {c}]]
  /\ UNCHANGED <<cache, window, lastResponse, cacheFails, clientCache>>

\* The handler's evictions and its response
UpdateEvict(r) ==
  /\ requests[r].pc = "update_evict"
  /\ Invalidate(UpdateEvicts)
  /\ requests' = [requests EXCEPT ![r].pc = "done",
                                  ![r].status = AfterInvalidate(200)]
  /\ UNCHANGED <<storeVars, lastResponse, cacheFails, clientCache>>

\* DELETE /api/petitions/:id, statement by statement; result keeps the
\* petition as the ownership check read it
DeleteBegin(r, router, user, id) ==
  /\ MayStart(r)
  /\ LET auth == Authorize(router, "delete", DB, user, id)
     IN  requests' =
           [requests EXCEPT ![r] =
              [IdleRequest EXCEPT
                 !.pc = IF auth # 200 THEN "done" ELSE "delete_categories",
                 !.user = user, !.op = "delete", !.id = id,
                 !.result = getPetitionById(DB, id),
                 !.status = IF auth # 200 THEN auth ELSE 0]]
  /\ UNCHANGED <<storeVars, cache, window, lastResponse, cacheFails, clientCache>>

\* deletePetition: DELETE FROM petition_categories WHERE petition_id = ?
DeleteStmtCategories(r) ==
  /\ requests[r].pc = "delete_categories"
  /\ Commit(DeletePetitionCategories(DB, requests[r].id))
  /\ requests' = [requests EXCEPT ![r].pc = "delete_signatures"]
  /\ UNCHANGED <<cache, window, lastResponse, cacheFails, clientCache>>

\* deletePetition: DELETE FROM signatures WHERE petition_id = ?
DeleteStmtSignatures(r) ==
  /\ requests[r].pc = "delete_signatures"
  /\ Commit(DeleteSignatures(DB, requests[r].id))
  /\ requests' = [requests EXCEPT ![r].pc = "delete_petition"]
  /\ UNCHANGED <<cache, window, lastResponse, cacheFails, clientCache>>

\* deletePetition: DELETE FROM petitions WHERE id = ?
DeleteStmtPetition(r) ==
  /\ requests[r].pc = "delete_petition"
  /\ Commit(DeletePetitionRow(DB, requests[r].id))
  /\ requests' = [requests EXCEPT ![r].pc = "delete_evict"]
  /\ UNCHANGED <<cache, window, lastResponse, cacheFails, clientCache>>

\* The handler's evictions and its response
DeleteEvict(r) ==
  /\ requests[r].pc = "delete_evict"
  /\ Invalidate(DeleteEvicts)
  /\ requests' = [requests EXCEPT ![r].pc = "done",
                                  ![r].status = AfterInvalidate(200)]
  /\ UNCHANGED <<storeVars, lastResponse, cacheFails, clientCache>>

\* POST /api/petition/:id/publish, statement by statement
PublishBegin(r, router, user, id) ==
  /\ MayStart(r)
  /\ LET auth == Authorize(router, "publish", DB, user, id)
     IN  requests' =
           [requests EXCEPT ![r] =
              [IdleRequest EXCEPT
                 !.pc = IF auth # 200 THEN "done" ELSE "publish_update",
                 !.user = user, !.op = "publish", !.id = id,
                 !.status = IF auth # 200 THEN auth ELSE 0]]
  /\ UNCHANGED <<storeVars, cache, window, lastResponse, cacheFails, clientCache>>

PublishUpdate(r) ==
  /\ requests[r].pc = "publish_update"
  /\ Commit(publishPetitionUpdate(DB, requests[r].id))
  /\ requests' = [requests EXCEPT ![r].pc = "publish_select"]
  /\ UNCHANGED <<cache, window, lastResponse, cacheFails, clientCache>>

PublishSelect(r) ==
  /\ requests[r].pc = "publish_select"
  /\ LET res == publishPetitionSelect(DB, requests[r].id)
     IN  requests' =
           [requests EXCEPT ![r] =
              IF res.ok
              THEN [@ EXCEPT !.pc = "publish_evict",
                             !.result = Some(res.result)]
              ELSE [@ EXCEPT !.pc = "done", !.error = res.error,
                             !.status = createCachedErrorResponse(res.error)]]
  /\ UNCHANGED <<storeVars, cache, window, lastResponse, cacheFails, clientCache>>

PublishEvict(r) ==
  /\ requests[r].pc = "publish_evict"
  /\ Invalidate(PublishEvicts)
  /\ requests' = [requests EXCEPT ![r].pc = "done",
                                  ![r].status = AfterInvalidate(200)]
  /\ UNCHANGED <<storeVars, lastResponse, cacheFails, clientCache>>

\* The compute function of the list read
ListCompute(db, query) ==
  IF query.userId # NULL
  THEN Ok(db, getUserPetitions(db, query.userId))
  ELSE Ok(db, getAllPetitions(db, query.limit, query.offset, query.type, {}))

\* The compute function without `if (!result) throw`: null is a result
DetailComputeNoThrow(db, id) ==
  LET result == getPetitionById(db, id)
  IN  IF result = Null THEN Ok(db, NULL) ELSE Ok(db, TheValue(result))

\* The compute function of the detail read
DetailCompute(db, id) ==
  LET result == getPetitionById(db, id)
  IN  IF result = Null THEN Throw(db, PETITION_NOT_FOUND)
      ELSE Ok(db, TheValue(result))

\* The detail read without the cache in front of its compute function
ReadPetitionUncached(c, db, id) ==
  LET computed == DetailCompute(db, id)
  IN  [ok |-> computed.ok, error |-> computed.error,
       value |-> computed.result, cache |-> c, hit |-> FALSE]

\* getOrSetCache(cacheKey, CACHE, () => db.getPetitionById(id), 10 * 60)
ReadPetitionThroughCache(c, db, id) ==
  getOrSetCache(c, DetailKey(id), DetailCompute(db, id))

\* GET /api/petitions/:id, step by step: the cache lookup of getOrSetCache
ReadBegin(r, id) ==
  /\ MayStart(r)
  /\ requests' =
       [requests EXCEPT ![r] =
          IF DetailKey(id) \in DOMAIN cache
          THEN [IdleRequest EXCEPT !.pc = "done", !.op = "detail", !.id = id,
                                   !.result = Some(cache[DetailKey(id)]),
                                   !.status = 200]
          ELSE [IdleRequest EXCEPT !.pc = "read_compute", !.op = "detail",
                                   !.id = id]]
  /\ UNCHANGED <<storeVars, cache, window, lastResponse, cacheFails, clientCache>>

\* The compute function, on a miss: db.getPetitionById(petitionId)
ReadCompute(r) ==
  /\ requests[r].pc = "read_compute"
  /\ LET computed == DetailCompute(DB, requests[r].id)
     IN  requests' =
           [requests EXCEPT ![r] =
              IF computed.ok
              THEN [@ EXCEPT !.pc = "read_store",
                             !.result = Some(computed.result)]
              ELSE [@ EXCEPT !.pc = "done", !.error = computed.error,
                             !.status =
                               createCachedErrorResponse(computed.error)]]
  /\ UNCHANGED <<storeVars, cache, window, lastResponse, cacheFails, clientCache>>

\* The computed value is stored under the key and returned
ReadStore(r) ==
  /\ requests[r].pc = "read_store"
  /\ cache' = (DetailKey(requests[r].id) :> TheValue(requests[r].result))
                 @@ cache
  /\ requests' = [requests EXCEPT ![r].pc = "done", ![r].status = 200]
  /\ UNCHANGED <<storeVars, window, lastResponse, cacheFails, clientCache>>

\* The validator of a payload: opaque and derived from the content, so that
\* two payloads have the same validator exactly when they are equal
ETag(payload) == <<"etag", payload>>

\* createCachedResponse: 304 to a request whose If-None-Match is the
\* validator of the payload, 200 with the payload otherwise
createCachedResponse(payload, ifNoneMatch) ==
  IF ifNoneMatch = Some(ETag(payload)) THEN 304 ELSE 200

\* getCacheKey(endpoint, options) of a GET of one petition
getCacheKey(id) == [method |-> "GET", endpoint |-> DetailPath(id)]

\* The patterns signatureApi.create invalidates that match a key of a GET
\* under /api/petitions (a regular expression, tested anywhere in the key)
ClientSignInvalidates == {"GET:/api/petitions"}

\* cacheUtils.invalidatePattern
invalidatePattern(c, pattern) ==
  LET gone == {k \in DOMAIN c :
                 /\ pattern \in ClientSignInvalidates
                 /\ k.method = "GET"
                 /\ Head(k.endpoint) = "/api/petitions/"}
  IN  [k \in DOMAIN c \ gone |-> c[k]]

\* apiRequest after the fetch: a 304 returns the entry that is in the Map
\* now; without one, or on another status that is not ok, it throws; a 200
\* is stored with its ETag and returned
ReturnFromCache(c, key, status, data) ==
  IF status = 304 /\ key \in DOMAIN c
  THEN [error |-> NULL, result |-> Some(c[key].data), cache |-> c]
  ELSE IF status # 200
  THEN [error |-> "ApiError", result |-> Null, cache |-> c]
  ELSE [error |-> NULL, result |-> data,
        cache |-> (key :> [data |-> TheValue(data),
                           etag |-> ETag(TheValue(data))]) @@ c]

\* apiRequest before the fetch: a GET with an entry that has not outlived
\* its max-age (valid) sends the ETag of the entry
ClientGetSend(r, id, valid) ==
  /\ MayStart(r)
  /\ LET key == getCacheKey(id)
     IN  requests' =
           [requests EXCEPT ![r] =
              [IdleRequest EXCEPT
                 !.pc = "client_fetch", !.op = "client_get", !.id = id,
                 !.ifNoneMatch = IF key \in DOMAIN clientCache /\ valid
                                 THEN Some(clientCache[key].etag) ELSE Null]]
  /\ UNCHANGED <<storeVars, cache, window, lastResponse, cacheFails,
                 clientCache>>

\* The server handles the GET (the handler of GET /api/petitions/:id)
ClientGetServer(r) ==
  /\ requests[r].pc = "client_fetch"
  /\ LET id == requests[r].id
         got == ReadPetitionThroughCache(cache, DB, id)
         status == IF got.ok
                   THEN createCachedResponse(got.value, requests[r].ifNoneMatch)
                   ELSE createCachedErrorResponse(got.error)
     IN  /\ cache' = got.cache
         /\ window' = RecordLookup(window, DetailKey(id), got)
         /\ requests' =
              [requests EXCEPT ![r].pc = "client_receive",
                               ![r].status = status,
                               ![r].data = IF status = 200 THEN Some(got.value)
                                           ELSE Null]
  /\ UNCHANGED <<storeVars, lastResponse, cacheFails, clientCache>>

\* apiRequest after the fetch
ClientGetReceive(r) ==
  /\ requests[r].pc = "client_receive"
  /\ LET out == ReturnFromCache(clientCache, getCacheKey(requests[r].id),
                                requests[r].status, requests[r].data)
     IN  /\ clientCache' = out.cache
         /\ requests' = [requests EXCEPT ![r].pc = "done",
                                         ![r].error = out.error,
                                         ![r].result = out.result]
  /\ UNCHANGED <<storeVars, cache, window, lastResponse, cacheFails>>

\* signatureApi.create after its POST has answered ok
ClientAfterSign ==
  /\ lastResponse.op = "sign"
  /\ lastResponse.status = 200
  /\ clientCache' = invalidatePattern(clientCache, "GET:/api/petitions")
  /\ UNCHANGED <<storeVars, cache, window, lastResponse, requests,
                 cacheFails>>

\* GET /api/petitions
ListPetitionsRequest(router, user, query) ==
  /\ IF query.userId # NULL /\ requireAuth(user) # 200
     THEN /\ UNCHANGED <<cache, window>>
          /\ lastResponse' = Response("list", user, 401, 0, query,
                                      NULL, NULL, Null, FALSE, FALSE)
     ELSE LET key == ListKey(query)
              got == getOrSetCache(cache, key, ListCompute(DB, query))
          IN  /\ cache' = got.cache
              /\ window' = RecordLookup(window, key, got)
              /\ lastResponse' = Response("list", user, 200, 0, query,
                                          NULL, got.value, Null, FALSE, got.hit)
  /\ UNCHANGED <<storeVars, requests, cacheFails, clientCache>>

\* GET /api/petitions/:id
GetPetitionRequest(router, user, id) ==
  LET key == DetailKey(id)
      got == ReadPetitionThroughCache(cache, DB, id)
  IN  /\ cache' = got.cache
      /\ window' = RecordLookup(window, key, got)
      /\ lastResponse' =
           Response("detail", user,
                    IF got.ok THEN 200 ELSE createCachedErrorResponse(got.error),
                    id, NoQuery, NULL, got.value, Null, FALSE, got.hit)
      /\ UNCHANGED <<storeVars, requests, cacheFails, clientCache>>

\* The ttl of a key runs out: its entry is gone
Expire(key) ==
  /\ key \in DOMAIN cache
  /\ cache' = [k \in DOMAIN cache \ {key} |-> cache[k]]
  /\ window' = IF window.key = key THEN NoWindow ELSE window
  /\ UNCHANGED <<storeVars, lastResponse, requests, cacheFails, clientCache>>

-----------------------------------------------------------------------------
(* Requests one at a time: the lifecycle, the listing and the detail read. *)

Identities == Users \cup {NoUser}
PetitionIds == 1..MaxPetitions

TitleRoad == <<"A", " ", "b">>
TitleRoadEdited == <<"a", "_", "B", "!">>

\* created_by and published_at are keys a JSON body may carry although the
\* form never sends them
NoFields ==
  [title |-> Null, type |-> NULL, status |-> NULL, location |-> NULL,
   category_ids |-> Null, created_by |-> NULL, published_at |-> NULL]

ListQueries ==
  {NoQuery,
   [NoQuery EXCEPT !.type = "local", !.limit = 1],
   [NoQuery EXCEPT !.offset = 1],
   [NoQuery EXCEPT !.userId = "u1"]}

Init ==
  /\ petitions = EmptyDB.petitions
  /\ signatures = EmptyDB.signatures
  /\ petition_categories = EmptyDB.petition_categories
  /\ nextId = EmptyDB.nextId
  /\ cache = <<>>
  /\ window = NoWindow
  /\ lastResponse = NoResponse
  /\ requests = [r \in RequestIds |-> IdleRequest]
  /\ cacheFails = FALSE
  /\ clientCache = <<>>

\* POST /api/petitions with the body's created_by as sent by the client
Create(user, title, type, created_by) ==
  \E router \in Routers :
    CreatePetitionRequest(router, user,
      [title |-> title, type |-> type, location |-> BarangayX,
       created_by |-> created_by, category_ids |-> {}])

\* The lifecycle of petitions under both routers, and the detail read
Next ==
  \/ \E user \in Users : Create(user, TitleRoad, "local", user)
  \/ \E router \in Routers, user \in Identities, id \in PetitionIds :
       UpdatePetitionRequest(router, user, id,
                             [NoFields EXCEPT !.type = "national"])
  \/ \E router \in Routers, user \in Identities, id \in PetitionIds :
       DeletePetitionRequest(router, user, id)
  \/ \E router \in Routers, user \in Identities, id \in PetitionIds :
       PublishPetitionRequest(router, user, id)
  \/ \E router \in Routers, user \in Identities, id \in PetitionIds :
       UnpublishPetitionRequest(router, user, id)
  \/ \E router \in Routers, id \in PetitionIds :
       GetPetitionRequest(router, NoUser, id)

Spec == Init /\ [][Next]_vars

\* The listing: owners create, update, publish, unpublish and delete, others
\* sign, anyone lists
NextList ==
  \/ Create("u1", TitleRoad, "local", "u1")
  \/ \E id \in DOMAIN petitions :
       PublishPetitionRequest(IttyRouter, petitions[id].created_by, id)
  \/ \E id \in DOMAIN petitions :
       UnpublishPetitionRequest(IttyRouter, petitions[id].created_by, id)
  \/ \E id \in DOMAIN petitions :
       DeletePetitionRequest(IttyRouter, petitions[id].created_by, id)
  \/ \E id \in DOMAIN petitions :
       UpdatePetitionRequest(IttyRouter, petitions[id].created_by, id,
                             [NoFields EXCEPT !.type = "national"])
  \/ \E id \in DOMAIN petitions :
       CreateSignatureRequest(IttyRouter, "u2",
                              [petition_id |-> id, user_id |-> "u2"])
  \/ \E router \in Routers, user \in {NoUser, "u2"}, query \in ListQueries :
       ListPetitionsRequest(router, user, query)

SpecList == Init /\ [][NextList]_vars

\* Signing, one request at a time, and the cached reads
NextSign ==
  \/ Create("u1", TitleRoad, "local", "u1")
  \/ \E router \in Routers, user \in Identities, id \in PetitionIds :
       CreateSignatureRequest(router, user,
                              [petition_id |-> id, user_id |-> user])
  \/ \E router \in Routers, id \in PetitionIds :
       GetPetitionRequest(router, NoUser, id)
  \/ \E router \in Routers :
       ListPetitionsRequest(router, NoUser, NoQuery)
  \/ \E id \in PetitionIds : Expire(DetailKey(id))

SpecSign == Init /\ [][NextSign]_vars

\* Who a petition and a signature belong to, whatever the body claims
NextIdentity ==
  \/ \E user \in Identities, created_by \in Users :
       Create(user, TitleRoad, "local", created_by)
  \/ \E router \in Routers, user \in Identities, id \in PetitionIds,
        user_id \in Users :
       CreateSignatureRequest(router, user,
                              [petition_id |-> id, user_id |-> user_id])

SpecIdentity == Init /\ [][NextIdentity]_vars

\* Slugs: titles that normalize alike, or to the slug of another petition
SlugTitles ==
  {TitleRoad, TitleRoadEdited, <<"a", "-", "b", "-", "1">>, <<"!">>,
   <<" ", "-", "a", " ", "_", "b", "-">>}

NextSlug ==
  \/ \E title \in SlugTitles : Create("u1", title, "local", "u1")
  \/ \E id \in PetitionIds, title \in SlugTitles :
       UpdatePetitionRequest(IttyRouter, "u1", id,
                             [NoFields EXCEPT !.title = Some(title)])
  \/ \E id \in PetitionIds :
       UpdatePetitionRequest(IttyRouter, "u1", id,
                             [NoFields EXCEPT !.status = "closed"])

SpecSlug == Init /\ [][NextSlug]_vars

\* Sign requests in flight together
NextConc ==
  \/ Create("u1", TitleRoad, "local", "u1")
  \/ \E r \in RequestIds, router \in Routers, user \in Users,
        id \in PetitionIds :
       SignBegin(r, router, user, [petition_id |-> id, user_id |-> user])
  \/ \E r \in RequestIds : SignInsert(r)
  \/ \E r \in RequestIds : SignEvict(r)

SpecConc == Init /\ [][NextConc]_vars

\* Mutations by the owner while the KV namespace may be failing; reads when
\* it is not
NextEvict ==
  \/ Create("u1", TitleRoad, "local", "u1")
  \/ \E id \in PetitionIds :
       UpdatePetitionRequest(IttyRouter, "u1", id,
                             [NoFields EXCEPT !.type = "national"])
  \/ \E id \in PetitionIds : DeletePetitionRequest(IttyRouter, "u1", id)
  \/ \E id \in PetitionIds : PublishPetitionRequest(IttyRouter, "u1", id)
  \/ \E id \in PetitionIds : UnpublishPetitionRequest(IttyRouter, "u1", id)
  \/ \E id \in PetitionIds :
       CreateSignatureRequest(IttyRouter, "u2",
                              [petition_id |-> id, user_id |-> "u2"])
  \/ CacheOutage
  \/ ~cacheFails /\ GetPetitionRequest(IttyRouter, NoUser, 1)

SpecEvict == Init /\ [][NextEvict]_vars

\* Categories: the owner creates with categories and updates them, alone or
\* together with another field
NextCategories ==
  \/ \E categories \in SUBSET CategoryIds :
       CreatePetitionRequest(IttyRouter, "u1",
         [title |-> TitleRoad, type |-> "local", location |-> BarangayX,
          created_by |-> "u1", category_ids |-> categories])
  \/ \E id \in PetitionIds, categories \in SUBSET CategoryIds :
       UpdatePetitionRequest(IttyRouter, "u1", id,
         [NoFields EXCEPT !.category_ids = Some(categories)])
  \/ \E id \in PetitionIds, categories \in SUBSET CategoryIds,
        status \in {"active", "closed"} :
       UpdatePetitionRequest(IttyRouter, "u1", id,
         [NoFields EXCEPT !.status = status,
                          !.category_ids = Some(categories)])
  \/ \E id \in PetitionIds :
       UpdatePetitionRequest(IttyRouter, "u1", id,
                             [NoFields EXCEPT !.status = "completed"])
  \/ \E id \in PetitionIds :
       UpdatePetitionRequest(IttyRouter, "u1", id, NoFields)

SpecCategories == Init /\ [][NextCategories]_vars

\* List reads that carry a categories parameter, over categorised petitions
FilterQueries ==
  {NoQuery,
   [NoQuery EXCEPT !.categories = {1}],
   [NoQuery EXCEPT !.categories = {2}],
   [NoQuery EXCEPT !.categories = CategoryIds]}

NextFilter ==
  \/ \E categories \in {{1}, {2}} :
       CreatePetitionRequest(IttyRouter, "u1",
         [title |-> TitleRoad, type |-> "local", location |-> BarangayX,
          created_by |-> "u1", category_ids |-> categories])
  \/ \E id \in DOMAIN petitions :
       PublishPetitionRequest(IttyRouter, petitions[id].created_by, id)
  \/ \E query \in FilterQueries :
       ListPetitionsRequest(IttyRouter, NoUser, query)

SpecFilter == Init /\ [][NextFilter]_vars

\* Publish, unpublish and delete repeated on the same id, under both routers
NextRepeat ==
  \/ Create("u1", TitleRoad, "local", "u1")
  \/ \E router \in Routers, user \in Identities, id \in PetitionIds :
       DeletePetitionRequest(router, user, id)
  \/ \E router \in Routers, user \in Identities, id \in PetitionIds :
       PublishPetitionRequest(router, user, id)
  \/ \E router \in Routers, id \in PetitionIds :
       UnpublishPetitionRequest(router, "u1", id)

SpecRepeat == Init /\ [][NextRepeat]_vars

\* Creates that run statement by statement, beside updates of the title
ConcTitles == {TitleRoad, <<"a", "-", "b", "-", "1">>}

NextCreateConc ==
  \/ \E r \in RequestIds, title \in ConcTitles :
       CreateBegin(r, "u1",
         [title |-> title, type |-> "local", location |-> BarangayX,
          created_by |-> "u1", category_ids |-> {}])
  \/ \E r \in RequestIds : CreateInsert(r)
  \/ \E r \in RequestIds : CreateUpdateSlug(r)
  \/ \E r \in RequestIds : CreateFinish(r)
  \/ \E id \in PetitionIds, title \in ConcTitles :
       UpdatePetitionRequest(IttyRouter, "u1", id,
                             [NoFields EXCEPT !.title = Some(title)])

SpecCreateConc == Init /\ [][NextCreateConc]_vars

\* Publishes that run statement by statement, beside unpublish and delete
NextPublishConc ==
  \/ Create("u1", TitleRoad, "local", "u1")
  \/ \E r \in RequestIds, id \in PetitionIds :
       PublishBegin(r, IttyRouter, "u1", id)
  \/ \E r \in RequestIds : PublishUpdate(r)
  \/ \E r \in RequestIds : PublishSelect(r)
  \/ \E r \in RequestIds : PublishEvict(r)
  \/ \E id \in PetitionIds : UnpublishPetitionRequest(IttyRouter, "u1", id)
  \/ \E id \in PetitionIds : DeletePetitionRequest(IttyRouter, "u1", id)

SpecPublishConc == Init /\ [][NextPublishConc]_vars

\* Detail reads that run step by step, beside updates of the same petitions
NextReadConc ==
  \/ Create("u1", TitleRoad, "local", "u1")
  \/ \E id \in PetitionIds :
       UpdatePetitionRequest(IttyRouter, "u1", id,
                             [NoFields EXCEPT !.type = "national"])
  \/ \E r \in RequestIds, id \in PetitionIds : ReadBegin(r, id)
  \/ \E r \in RequestIds : ReadCompute(r)
  \/ \E r \in RequestIds : ReadStore(r)

SpecReadConc == Init /\ [][NextReadConc]_vars

\* Updates that replace the categories statement by statement
ReplacedBy == {{1}, {2}}

NextUpdateConc ==
  \/ Create("u1", TitleRoad, "local", "u1")
  \/ \E r \in RequestIds, id \in PetitionIds, categories \in ReplacedBy :
       UpdateBegin(r, IttyRouter, "u1", id,
                   [NoFields EXCEPT !.status = "active",
                                    !.category_ids = Some(categories)])
  \/ \E r \in RequestIds : UpdateRow(r)
  \/ \E r \in RequestIds : UpdateRemoveCategories(r)
  \/ \E r \in RequestIds : UpdateAddCategory(r)
  \/ \E r \in RequestIds : UpdateEvict(r)

SpecUpdateConc == Init /\ [][NextUpdateConc]_vars

\* No request is between two of its statements
Quiet == \A r \in RequestIds : requests[r].pc \in {"idle", "done"}

\* One delete at a time, statement by statement, of petitions that have
\* signatures and category links
NextDeleteOrder ==
  \/ /\ Quiet
     /\ \E categories \in {{}, {1}} :
          CreatePetitionRequest(IttyRouter, "u1",
            [title |-> TitleRoad, type |-> "local", location |-> BarangayX,
             created_by |-> "u1", category_ids |-> categories])
  \/ /\ Quiet
     /\ \E id \in PetitionIds :
          CreateSignatureRequest(IttyRouter, "u2",
                                 [petition_id |-> id, user_id |-> "u2"])
  \/ /\ Quiet
     /\ \E r \in RequestIds, id \in PetitionIds :
          DeleteBegin(r, IttyRouter, "u1", id)
  \/ \E r \in RequestIds : DeleteStmtCategories(r)
  \/ \E r \in RequestIds : DeleteStmtSignatures(r)
  \/ \E r \in RequestIds : DeleteStmtPetition(r)
  \/ \E r \in RequestIds : DeleteEvict(r)

SpecDeleteOrder == Init /\ [][NextDeleteOrder]_vars

\* Deletes, signatures and category replacements of the first petition, all
\* statement by statement, beside creates of further petitions
NextDeleteConc ==
  \/ Create("u1", TitleRoad, "local", "u1")
  \/ \E r \in RequestIds :
       SignBegin(r, IttyRouter, "u2", [petition_id |-> 1, user_id |-> "u2"])
  \/ \E r \in RequestIds : SignInsert(r)
  \/ \E r \in RequestIds : SignEvict(r)
  \/ \E r \in RequestIds :
       UpdateBegin(r, IttyRouter, "u1", 1,
                   [NoFields EXCEPT !.status = "active",
                                    !.category_ids = Some({1})])
  \/ \E r \in RequestIds : UpdateRow(r)
  \/ \E r \in RequestIds : UpdateRemoveCategories(r)
  \/ \E r \in RequestIds : UpdateAddCategory(r)
  \/ \E r \in RequestIds : UpdateEvict(r)
  \/ \E r \in RequestIds : DeleteBegin(r, IttyRouter, "u1", 1)
  \/ \E r \in RequestIds : DeleteStmtCategories(r)
  \/ \E r \in RequestIds : DeleteStmtSignatures(r)
  \/ \E r \in RequestIds : DeleteStmtPetition(r)
  \/ \E r \in RequestIds : DeleteEvict(r)

SpecDeleteConc == Init /\ [][NextDeleteConc]_vars

\* Publish, unpublish and update of petitions that have a status, category
\* links and signatures, beside other petitions
FrameBodies ==
  {[NoFields EXCEPT !.status = "closed"],
   [NoFields EXCEPT !.title = Some(TitleRoadEdited), !.type = "national",
                    !.category_ids = Some({2})],
   [NoFields EXCEPT !.status = "active", !.created_by = "u2",
                    !.published_at = CURRENT_TIMESTAMP]}

NextFrame ==
  \/ CreatePetitionRequest(IttyRouter, "u1",
       [title |-> TitleRoad, type |-> "local", location |-> BarangayX,
        created_by |-> "u1", category_ids |-> {1}])
  \/ \E id \in PetitionIds :
       CreateSignatureRequest(IttyRouter, "u2",
                              [petition_id |-> id, user_id |-> "u2"])
  \/ \E id \in PetitionIds : PublishPetitionRequest(IttyRouter, "u1", id)
  \/ \E id \in PetitionIds : UnpublishPetitionRequest(IttyRouter, "u1", id)
  \/ \E id \in PetitionIds, body \in FrameBodies :
       UpdatePetitionRequest(IttyRouter, "u1", id, body)

SpecFrame == Init /\ [][NextFrame]_vars

\* GETs of the browser through apiRequest, beside signatureApi.create
NextClient ==
  \/ Create("u1", TitleRoad, "local", "u1")
  \/ \E r \in RequestIds, id \in PetitionIds, valid \in BOOLEAN :
       ClientGetSend(r, id, valid)
  \/ \E r \in RequestIds : ClientGetServer(r)
  \/ \E r \in RequestIds : ClientGetReceive(r)
  \/ \E id \in PetitionIds :
       CreateSignatureRequest(IttyRouter, "u2",
                              [petition_id |-> id, user_id |-> "u2"])
  \/ ClientAfterSign

SpecClient == Init /\ [][NextClient]_vars

\* Creates and updates with and without a location
Locations == {NULL, BarangayX}

NextLocation ==
  \/ \E type \in PetitionTypes, location \in Locations :
       CreatePetitionRequest(IttyRouter, "u1",
         [title |-> TitleRoad, type |-> type, location |-> location,
          created_by |-> "u1", category_ids |-> {}])
  \/ \E id \in PetitionIds, type \in PetitionTypes :
       UpdatePetitionRequest(IttyRouter, "u1", id,
                             [NoFields EXCEPT !.type = type])
  \/ \E id \in PetitionIds, type \in PetitionTypes :
       UpdatePetitionRequest(IttyRouter, "u1", id,
                             [NoFields EXCEPT !.type = type,
                                              !.location = BarangayX])
  \/ \E id \in PetitionIds :
       GetPetitionRequest(IttyRouter, NoUser, id)

SpecLocation == Init /\ [][NextLocation]_vars

-----------------------------------------------------------------------------
(* Properties *)

IsResponse(op, status) ==
  lastResponse.op = op /\ lastResponse.status = status

C4_OnlyOwnerMutates ==
  ( /\ lastResponse.op \in {"update", "delete", "publish", "unpublish"}
    /\ lastResponse.before # Null
    /\ lastResponse.user # TheValue(lastResponse.before).row.created_by ) =>
      /\ lastResponse.status = IF lastResponse.user = NoUser THEN 401 ELSE 403
      /\ getPetitionById(DB, lastResponse.id) = lastResponse.before

\* Every entry in the cache holds what its read would compute now
CacheIsFresh ==
  /\ \A id \in PetitionIds :
       DetailKey(id) \in DOMAIN cache =>
         Some(cache[DetailKey(id)]) = getPetitionById(DB, id)
  /\ \A query \in ListQueries :
       ListKey(query) \in DOMAIN cache =>
         cache[ListKey(query)] = ListCompute(DB, query).result

\* C5: after a successful update, publish, unpublish, delete or sign has
\* returned, every entry still in the cache (list keys under 'petitions:',
\* detail keys under 'petition:') holds what its read would compute now.
C5_MutationEvictsStaleEntries ==
  ( /\ lastResponse.op \in {"update", "publish", "unpublish", "delete", "sign"}
    /\ lastResponse.status = 200 ) => CacheIsFresh

\* C6: a created petition's slug is generateSlug(title, id) of its own title
\* and id, no two stored petitions share a slug, and an update that does not
\* supply title leaves the slug as it was.
C6_SlugDerivedUniqueStable ==
  /\ \A id \in DOMAIN petitions : SlugIsFree(DB, petitions[id].slug, id)
  /\ IsResponse("create", 200) =>
       /\ lastResponse.payload.row.slug =
            generateSlug(lastResponse.payload.row.title, lastResponse.payload.id)
       /\ petitions[lastResponse.payload.id].slug =
            lastResponse.payload.row.slug
  /\ (IsResponse("update", 200) /\ lastResponse.body.title = Null) =>
       petitions[lastResponse.id].slug =
         TheValue(lastResponse.before).row.slug

\* Two petitions whose titles normalize to the same base slug are stored, and
\* one of them was just updated without a title.
C6_Witness ==
  /\ IsResponse("update", 200)
  /\ lastResponse.body.title = Null
  /\ \E other \in DOMAIN petitions :
       /\ other # lastResponse.id
       /\ baseSlug(petitions[other].title) =
            baseSlug(petitions[lastResponse.id].title)

\* C7: no public read (list without userId, detail by id) returns a petition
\* whose published_at is null.
C7_PublicReadsOmitUnpublished ==
  /\ IsResponse("detail", 200) => lastResponse.payload.row.published_at # NULL
  /\ (IsResponse("list", 200) /\ lastResponse.query.userId = NULL) =>
       \A i \in 1..Len(lastResponse.payload) :
         lastResponse.payload[i].row.published_at # NULL

C9_OwnerIsAuthenticatedIdentity ==
  /\ IsResponse("create", 200) =>
       /\ lastResponse.user \in Users
       /\ lastResponse.payload.row.created_by = lastResponse.user
       /\ petitions[lastResponse.payload.id].created_by = lastResponse.user
  /\ IsResponse("sign", 200) =>
       /\ lastResponse.user \in Users
       /\ lastResponse.payload.user_id = lastResponse.user
       /\ ~lastResponse.existed
       /\ CopiesIn(SignatureRow(lastResponse.id, lastResponse.user),
                   signatures) = 1
       /\ SignatureCount(DB, lastResponse.id) =
            TheValue(lastResponse.before).row.current_count + 1

\* A petition was created by a request whose body named another creator.
C9_Witness ==
  /\ IsResponse("create", 200)
  /\ lastResponse.body.created_by # lastResponse.user

Attempts(user, id) ==
  {r \in RequestIds :
     /\ requests[r].pc \in {"evict", "done"}
     /\ requests[r].user = user
     /\ user # NoUser
     /\ requests[r].signatureData.petition_id = id
     /\ requests[r].error # FOREIGN_KEY_CONSTRAINT}

Successes(user, id) == {r \in Attempts(user, id) : requests[r].error = NULL}

\* C2: in every interleaving of sign requests on a petition, each identity
\* that attempted to sign has exactly one signature row and exactly one
\* successful attempt (its other attempts fail on the uniqueness constraint);
\* identities that did not attempt have none.
C2_OneRowPerSigner ==
  \A id \in DOMAIN petitions, user \in Users :
    LET rows == CopiesIn(SignatureRow(id, user), signatures)
    IN  /\ rows = Cardinality(Successes(user, id))
        /\ rows = IF Attempts(user, id) = {} THEN 0 ELSE 1
        /\ \A r \in Attempts(user, id) \ Successes(user, id) :
             requests[r].error = UNIQUE_CONSTRAINT
        /\ \A r \in Successes(user, id) : requests[r].status = 200

\* Two identities have inserted before either was answered, and a retry by
\* one of them has been refused.
C2_Witness ==
  \E a, b, c \in RequestIds :
    /\ requests[a].pc = "evict" /\ requests[a].user = "u1"
    /\ requests[b].pc = "evict" /\ requests[b].user = "u2"
    /\ requests[c].pc = "done" /\ requests[c].user = "u1"
    /\ requests[c].error = UNIQUE_CONSTRAINT
    /\ requests[a].signatureData = requests[c].signatureData
    /\ requests[a].signatureData.petition_id =
         requests[b].signatureData.petition_id

\* C3: in every state, each petition's current_count is the number of
\* signature rows stored for it, which is the number of sign requests on it
\* that succeeded.
C3_CountMatchesRows ==
  \A id \in DOMAIN petitions :
    /\ petitions[id].current_count = SignatureCount(DB, id)
    /\ petitions[id].current_count =
         Cardinality(UNION {Successes(user, id) : user \in Users})

\* Two signings have committed and neither has been answered yet.
C3_Witness ==
  \E a, b \in RequestIds, id \in DOMAIN petitions :
    /\ a # b
    /\ requests[a].pc = "evict" /\ requests[b].pc = "evict"
    /\ requests[a].signatureData.petition_id = id
    /\ requests[b].signatureData.petition_id = id
    /\ petitions[id].current_count = 2

\* C11: a detail read of a petition id that does not exist is answered with
\* the error and leaves no cache entry for its key; every detail entry in the
\* cache is the payload of a read that found its petition.
C11_FailedReadIsNotCached ==
  /\ (lastResponse.op = "detail" /\ lastResponse.id \notin DOMAIN petitions) =>
       /\ lastResponse.status = 404
       /\ ~lastResponse.hit
       /\ DetailKey(lastResponse.id) \notin DOMAIN cache
  /\ \A id \in PetitionIds :
       DetailKey(id) \in DOMAIN cache =>
         /\ id \in DOMAIN petitions
         /\ cache[DetailKey(id)].id = id

\* The read of a missing petition failed twice in a row while the cache held
\* the entries of other reads.
C11_Witness ==
  /\ IsResponse("detail", 404)
  /\ window.key = DetailKey(lastResponse.id)
  /\ window.failed = 2
  /\ DetailKey(lastResponse.id) \notin DOMAIN cache
  /\ ListKey(NoQuery) \in DOMAIN cache
  /\ \E id \in DOMAIN petitions : DetailKey(id) \in DOMAIN cache

Mutations == {"create", "update", "delete", "publish", "unpublish", "sign"}

\* C12: a mutation that changes the store while the cache is failing its
\* evictions is still answered with its success response.
C12_EvictionFailureKeepsSuccess ==
  [][(/\ cacheFails /\ cacheFails'
      /\ storeVars' # storeVars
      /\ lastResponse'.op \in Mutations) => lastResponse'.status = 200]_vars

\* An unpublish was answered 200 while the cache was failing, and the entries
\* it should have evicted are still there.
C12_Witness ==
  /\ IsResponse("unpublish", 200)
  /\ cacheFails
  /\ DetailKey(lastResponse.id) \in DOMAIN cache
  /\ ~CacheIsFresh

\* C13: an update of an existing petition by its owner that supplies
\* category_ids = S, with or without other fields, succeeds and leaves the
\* petition linked to exactly the categories in S.
C13_CategoriesReplaced ==
  ( /\ lastResponse.op = "update"
    /\ lastResponse.before # Null
    /\ lastResponse.status \notin {401, 403}
    /\ lastResponse.body.category_ids # Null ) =>
      /\ lastResponse.status = 200
      /\ CategoriesOf(DB, lastResponse.id) =
           TheValue(lastResponse.body.category_ids)

\* C14: update, publish and unpublish of a petition id that does not exist,
\* by an authenticated caller, are each answered not found (404) and create
\* no row.
C14_MissingPetitionIsNotFound ==
  ( /\ lastResponse.op \in {"update", "publish", "unpublish"}
    /\ lastResponse.before = Null
    /\ lastResponse.user \in Users ) =>
      /\ lastResponse.status = 404
      /\ getPetitionById(DB, lastResponse.id) = Null

\* C15: an update of an existing petition that supplies no field fails and
\* leaves the petition row and its category links as they were.
C15_EmptyUpdateChangesNothing ==
  ( /\ lastResponse.op = "update"
    /\ lastResponse.body = NoFields
    /\ lastResponse.before # Null
    /\ lastResponse.status \notin {401, 403} ) =>
      /\ lastResponse.status # 200
      /\ getPetitionById(DB, lastResponse.id) = lastResponse.before

\* An empty update of a petition that has categories and a status set by an
\* earlier update was refused.
C15_Witness ==
  /\ lastResponse.op = "update"
  /\ lastResponse.status # 200
  /\ lastResponse.body = NoFields
  /\ lastResponse.before # Null
  /\ CategoriesOf(DB, lastResponse.id) = CategoryIds
  /\ petitions[lastResponse.id].status = "closed"

\* The details of a petition without its publication stamp
Unstamped(details) == [details EXCEPT !.row.published_at = NULL]

\* C16: a publish of a petition that is already published, by a caller the
\* route admits, is answered 200 and leaves the petition published; apart
\* from the publication stamp the row and its category links are what they
\* were after the first publish.
C16_RepublishKeepsPublished ==
  ( /\ lastResponse.op = "publish"
    /\ lastResponse.before # Null
    /\ lastResponse.status \notin {401, 403}
    /\ TheValue(lastResponse.before).row.published_at # NULL ) =>
      /\ lastResponse.status = 200
      /\ lastResponse.id \in DOMAIN petitions
      /\ petitions[lastResponse.id].published_at # NULL
      /\ Unstamped(TheValue(getPetitionById(DB, lastResponse.id))) =
           Unstamped(TheValue(lastResponse.before))

C16_Witness ==
  /\ IsResponse("publish", 200)
  /\ lastResponse.before # Null
  /\ TheValue(lastResponse.before).row.published_at # NULL
  /\ petitions[lastResponse.id].published_at # NULL

\* C17: a delete of a petition id that does not exist, by an authenticated
\* caller, is answered as a success (200) and leaves the id without a row.
C17_DeleteOfMissingSucceeds ==
  ( /\ lastResponse.op = "delete"
    /\ lastResponse.before = Null
    /\ lastResponse.user \in Users ) =>
      /\ lastResponse.status = 200
      /\ getPetitionById(DB, lastResponse.id) = Null

\* C17 (amended): a delete of a petition id that does not exist changes no
\* row of the store; it is answered 200 where no ownership check runs, and
\* where requirePetitionOwnership runs it is answered 404 for an
\* authenticated caller and 401 for an anonymous one.
C17_DeleteOfMissingChangesNothing ==
  [][ ( /\ lastResponse'.op = "delete"
        /\ lastResponse'.before = Null ) =>
          /\ storeVars' = storeVars
          /\ lastResponse'.status \in
               (IF lastResponse'.user = NoUser THEN {200, 401}
                                               ELSE {200, 404}) ]_vars

C17_Witness ==
  /\ IsResponse("delete", 200)
  /\ lastResponse.before = Null
  /\ lastResponse.id < nextId
  /\ DOMAIN petitions # {}

\* C18: a list read without userId that is computed from the store returns
\* exactly the published petitions of the requested type that are linked to
\* at least one of the requested categories (all of them when no category is
\* requested), each once, newest first, within limit and offset.
C18_ListFiltersByCategory ==
  ( /\ IsResponse("list", 200)
    /\ lastResponse.query.userId = NULL
    /\ ~lastResponse.hit ) =>
      lastResponse.payload =
        getAllPetitions(DB, lastResponse.query.limit, lastResponse.query.offset,
                        lastResponse.query.type, lastResponse.query.categories)

\* C19: every stored petition of type local has a location.
C19_LocalHasLocation ==
  \A id \in DOMAIN petitions :
    petitions[id].type = "local" => petitions[id].location # NULL

\* C20: every create by an authenticated caller succeeds and stores the
\* petition under its own final slug, whatever slugs other petitions hold.
C20_CreateSurvivesSlugCollision ==
  ( /\ lastResponse.op = "create"
    /\ lastResponse.user \in Users ) =>
      /\ lastResponse.status = 200
      /\ lastResponse.id \in DOMAIN petitions
      /\ petitions[lastResponse.id].slug =
           generateSlug(lastResponse.body.title, lastResponse.id)

\* C21: an update of an existing petition that supplies a title, by a caller
\* the route admits, succeeds and stores generateSlug(title, id) for the
\* petition's own id, whatever other rows the store holds at that moment.
C21_TitleUpdateNeverCollides ==
  [][ ( /\ lastResponse'.op = "update"
        /\ requests' = requests
        /\ lastResponse'.before # Null
        /\ lastResponse'.status \notin {401, 403}
        /\ lastResponse'.body.title # Null ) =>
          /\ lastResponse'.status = 200
          /\ petitions'[lastResponse'.id].slug =
               generateSlug(TheValue(lastResponse'.body.title),
                            lastResponse'.id) ]_vars

\* C22: in every state of the store each petition's slug is
\* generateSlug(title, id) of its current title and its own id.
C22_SlugAlwaysDerived ==
  \A id \in DOMAIN petitions :
    petitions[id].slug = generateSlug(petitions[id].title, id)

\* C23: a publish that answers 200 returns the petition with published_at
\* set, whatever other requests ran between its statements.
C23_PublishReturnsOwnWrite ==
  \A r \in RequestIds :
    (requests[r].op = "publish" /\ requests[r].status = 200) =>
      /\ requests[r].result # Null
      /\ TheValue(requests[r].result).row.published_at # NULL

\* C24: when no request is in flight, every detail entry in the cache holds
\* what the store holds for that petition now.
C24_NoStaleEntryAfterRace ==
  (\A r \in RequestIds : requests[r].pc \in {"idle", "done"}) =>
    \A id \in PetitionIds :
      DetailKey(id) \in DOMAIN cache =>
        Some(cache[DetailKey(id)]) = getPetitionById(DB, id)

\* C25: when no request is in flight, the category set of every petition is
\* the set it was created with or the set one of the updates supplied,
\* never a mixture of two updates' sets.
C25_CategoriesReplacedAtomically ==
  (\A r \in RequestIds : requests[r].pc \in {"idle", "done"}) =>
    \A id \in DOMAIN petitions :
      CategoriesOf(DB, id) \in ({{}} \cup ReplacedBy)

\* The signature rows of a petition in a store
SignaturesOf(bag, id) == {x \in BagToSet(bag) : x.petition_id = id}

\* C26: a step that removes the category links of a petition whose row
\* stays leaves no signature of that petition behind, and a step that
\* removes a petition row finds no category link and no signature of it.
C26_SignaturesThenCategoriesThenRow ==
  [][ \A id \in PetitionIds :
        /\ ( /\ CategoriesOf(DB, id) # {}
             /\ id \in DOMAIN petitions'
             /\ \A pc \in petition_categories' : pc[1] # id ) =>
               SignaturesOf(signatures', id) = {}
        /\ ( id \in DOMAIN petitions /\ id \notin DOMAIN petitions' ) =>
               /\ CategoriesOf(DB, id) = {}
               /\ SignaturesOf(signatures, id) = {} ]_vars

\* C26 (amended): a delete removes the category links first, then the
\* signatures, then the petition row: a step that removes the signatures of
\* a petition whose row stays leaves no category link of it behind, and a
\* step that removes a petition row finds no category link and no signature.
C26_CategoriesThenSignaturesThenRow ==
  [][ \A id \in PetitionIds :
        /\ ( /\ SignaturesOf(signatures, id) # {}
             /\ id \in DOMAIN petitions'
             /\ SignaturesOf(signatures', id) = {} ) =>
               CategoriesOf(DB, id) = {}
        /\ ( id \in DOMAIN petitions /\ id \notin DOMAIN petitions' ) =>
               /\ CategoriesOf(DB, id) = {}
               /\ SignaturesOf(signatures, id) = {} ]_vars

\* A delete has completed for a petition that had a category link and a
\* signature when the delete began.
C26_Witness ==
  \E r \in RequestIds :
    /\ requests[r].op = "delete"
    /\ requests[r].pc = "done"
    /\ requests[r].status = 200
    /\ requests[r].result # Null
    /\ TheValue(requests[r].result).categories # {}
    /\ TheValue(requests[r].result).row.current_count > 0
    /\ requests[r].id \notin DOMAIN petitions

\* The delete requests whose third statement has run
Deleted(r) ==
  /\ requests[r].op = "delete"
  /\ \/ requests[r].pc = "delete_evict"
     \/ requests[r].pc = "done" /\ requests[r].status = 200

\* C27: once a delete of id has run its last statement, the store holds no
\* petition row with that id, no signature of it and no category link of it,
\* whatever signs and category replacements run beside it or after it.
C27_DeletedStaysDeleted ==
  \A r \in RequestIds :
    Deleted(r) =>
      /\ requests[r].id \notin DOMAIN petitions
      /\ SignaturesOf(signatures, requests[r].id) = {}
      /\ \A pc \in petition_categories : pc[1] # requests[r].id

\* A delete has completed while a category replacement of the same petition
\* was between its statements, and the replacement's insert was refused.
C27_Witness ==
  \E r, q \in RequestIds :
    /\ Deleted(r)
    /\ requests[r].pc = "done"
    /\ requests[q].op = "update"
    /\ requests[q].id = requests[r].id
    /\ requests[q].error = FOREIGN_KEY_CONSTRAINT

\* C28: a publish or unpublish request changes nothing in the store but the
\* published_at of the petition it addresses: every other column of that
\* row (status included), every other petition, every signature and every
\* category link is as before.
C28_PublishChangesOnlyPublishedAt ==
  [][ lastResponse'.op \in {"publish", "unpublish"} =>
        /\ signatures' = signatures
        /\ petition_categories' = petition_categories
        /\ nextId' = nextId
        /\ DOMAIN petitions' = DOMAIN petitions
        /\ \A id \in DOMAIN petitions :
             IF id = lastResponse'.id
             THEN [petitions'[id] EXCEPT !.published_at = NULL] =
                    [petitions[id] EXCEPT !.published_at = NULL]
             ELSE petitions'[id] = petitions[id] ]_vars

\* A published, closed petition with a signature and a category link has
\* just been unpublished, and it is still closed.
C28_Witness ==
  /\ IsResponse("unpublish", 200)
  /\ TheValue(lastResponse.before).row.published_at # NULL
  /\ petitions[lastResponse.id].published_at = NULL
  /\ petitions[lastResponse.id].status = "closed"
  /\ petitions[lastResponse.id].current_count > 0
  /\ CategoriesOf(DB, lastResponse.id) # {}
  /\ Cardinality(DOMAIN petitions) > 1

\* C29: an update request leaves the created_by, current_count and
\* published_at of the petition it addresses as they were, keeps it under
\* the same id, and changes no signature and no other petition or its
\* category links, whatever keys its body carries.
C29_UpdateKeepsProtectedColumns ==
  [][ lastResponse'.op = "update" =>
        /\ signatures' = signatures
        /\ nextId' = nextId
        /\ DOMAIN petitions' = DOMAIN petitions
        /\ \A id \in DOMAIN petitions :
             IF id = lastResponse'.id
             THEN /\ petitions'[id].created_by = petitions[id].created_by
                  /\ petitions'[id].current_count = petitions[id].current_count
                  /\ petitions'[id].published_at = petitions[id].published_at
             ELSE /\ petitions'[id] = petitions[id]
                  /\ CategoriesOf(DB, id) =
                       {pc[2] : pc \in {x \in petition_categories' :
                                          x[1] = id}} ]_vars

\* A successful update whose body carried created_by and published_at has
\* left a signed, unpublished petition with its creator and unpublished.
C29_Witness ==
  /\ IsResponse("update", 200)
  /\ lastResponse.body.created_by = "u2"
  /\ petitions[lastResponse.id].created_by = "u1"
  /\ petitions[lastResponse.id].current_count > 0
  /\ TheValue(lastResponse.before).row.published_at = NULL
  /\ petitions[lastResponse.id].published_at = NULL

\* C30: a GET of the browser that was answered 304 does not fail, and it
\* returns the data of the entry whose ETag it sent.
C30_NotModifiedReturnsCachedData ==
  \A r \in RequestIds :
    ( /\ requests[r].op = "client_get"
      /\ requests[r].pc = "done"
      /\ requests[r].status = 304 ) =>
        /\ requests[r].error = NULL
        /\ requests[r].result # Null
        /\ Some(ETag(TheValue(requests[r].result))) = requests[r].ifNoneMatch

====
